---------------------------- MODULE Spec2Model ----------------------------
(***************************************************************************)
(* Model of the sportsdata parser service: the normalisation of the vendor *)
(* feed (app/parser.py, app/models.py), the process-wide current parser    *)
(* and the HTTP handlers that read and replace it (app/main.py), and the   *)
(* fetch gateway (app/api_client.py).  The files the handlers write under   *)
(* data/ are never read back by the process and are not part of the state. *)
(*                                                                         *)
(* JSON values are tagged records [t |-> kind, v |-> payload]; the tag is  *)
(* the Python type of the decoded value.  A dict is a record over the keys *)
(* the code reads, an absent key holding Absent.  Decimal numbers (odds,   *)
(* probabilities) are integers counted in tenths.  A call that may raise   *)
(* returns [ok |-> TRUE, val |-> v] or [ok |-> FALSE, exc |-> name].       *)
(***************************************************************************)
EXTENDS Integers, Sequences, FiniteSets, TLC

VARIABLES
    current_parser,  \* main.py global: None or the BettingDataParser in use
    job,             \* the running startup/fetch handler: its position and locals
    response,        \* the outcome of the last finished HTTP handler
    clock            \* wall-clock time, in seconds since the epoch

vars == <<current_parser, job, response, clock>>

-----------------------------------------------------------------------------
(* Bounds of the model. *)

MaxRecords == 2     \* longest "Value" array the feed delivers
MaxElapsed == 1     \* seconds of wall-clock time followed after ClockStart
ClockStart == 5     \* the wall-clock second at which the process starts
MaxMain == 2        \* longest primary markets array "E" of a record
MaxGroups == 1      \* longest additional market groups array "AE" of a record
MaxEntries == 1     \* longest "ME" array of a market group
MaxCode == 63       \* largest market type code swept
MaxLeagueMatches == 3   \* longest "Value" array of the league runs

-----------------------------------------------------------------------------
(* JSON values as Python sees them after json.load / response.json(). *)

Absent == [t |-> "absent"]
None == [t |-> "null"]
JNum(n) == [t |-> "num", v |-> n]
JStr(s) == [t |-> "str", v |-> s]
JBool(b) == [t |-> "bool", v |-> b]
JList(s) == [t |-> "list", v |-> s]
JDict(f) == [t |-> "dict", v |-> f]

Ok(v) == [ok |-> TRUE, val |-> v]
Raise(e) == [ok |-> FALSE, exc |-> e]

MatchKeys == {"I", "L", "SE", "LE", "CN", "S", "O1", "O1I", "O1IMG", "O1C",
              "O2", "O2I", "O2IMG", "O2C", "MIO", "WP", "E", "AE", "MIS",
              "SS", "EC"}
MarketKeys == {"G", "T", "C", "P", "CE"}
GroupKeys == {"G", "ME"}
ResponseKeys == {"Error", "ErrorCode", "Success", "Value"}
VenueKeys == {"Loc", "TSt"}
ProbKeys == {"P1", "PX", "P2"}
WeatherKeys == {"K", "V"}

\* A dict over the key set ks holding the entries of the record f.
Dict(ks, f) == JDict([k \in ks |-> IF k \in DOMAIN f THEN f[k] ELSE Absent])

\* dict.get(key, default); dict.get(key) is Get(d, key, None).
Get(d, key, default) == IF d.v[key] = Absent THEN default ELSE d.v[key]

\* bool(x) of a decoded JSON value.
Truthy(x) ==
    CASE x.t = "num" -> x.v # 0
      [] x.t = "bool" -> x.v
      [] x.t = "str" -> x.v # ""
      [] x.t = "list" -> Len(x.v) > 0
      [] x.t = "dict" -> \E k \in DOMAIN x.v : x.v[k] # Absent
      [] OTHER -> FALSE

-----------------------------------------------------------------------------
(* models.py: pydantic field validation.  A number is accepted by an int  *)
(* or float field, a string by a str field, None by an Optional field.    *)

ValidInt(x) == x.t = "num"
ValidFloat(x) == x.t = "num"
ValidStr(x) == x.t = "str"
ValidOptInt(x) == x.t \in {"num", "null"}
ValidOptFloat(x) == x.t \in {"num", "null"}
ValidOptStr(x) == x.t \in {"str", "null"}

Team(name, id, image, country) ==
    IF ValidStr(name) /\ ValidInt(id) /\ ValidOptStr(image) /\ ValidOptInt(country)
    THEN Ok([name |-> name.v, id |-> id.v, image |-> image, country |-> country])
    ELSE Raise("ValidationError")

Market(type, outcome, odds, parameter, is_main) ==
    IF ValidInt(type) /\ ValidInt(outcome) /\ ValidFloat(odds) /\ ValidOptFloat(parameter)
    THEN Ok([type |-> type.v, outcome |-> outcome.v, odds |-> odds.v,
             parameter |-> parameter, is_main |-> is_main])
    ELSE Raise("ValidationError")

Markets == [match_result |-> <<>>, over_under |-> <<>>, handicap |-> <<>>,
            both_teams_score |-> <<>>, correct_score |-> <<>>]

\* The fields carry the aliases P1, PX, P2 and the model does not populate by
\* field name: only the aliased keyword arguments reach the fields, any other
\* keyword argument is ignored.  kw maps keyword names to values.
WinProbabilities(kw) ==
    LET arg(a) == IF a \in DOMAIN kw THEN kw[a] ELSE None
    IN  IF ValidOptFloat(arg("P1")) /\ ValidOptFloat(arg("PX")) /\ ValidOptFloat(arg("P2"))
        THEN Ok([home_win |-> arg("P1"), draw |-> arg("PX"), away_win |-> arg("P2")])
        ELSE Raise("ValidationError")

WeatherFields == {"temperature", "condition", "humidity", "wind_speed",
                  "pressure", "precipitation"}

\* Weather(**weather_map): weather_map holds Absent for the fields not set.
Weather(weather_map) ==
    IF \A f \in WeatherFields : weather_map[f] = Absent \/ ValidOptStr(weather_map[f])
    THEN Ok([f \in WeatherFields |->
                IF weather_map[f] = Absent THEN None ELSE weather_map[f]])
    ELSE Raise("ValidationError")

Match(id, name, sport, league, country, start_time, home_team, away_team, venue, stage, probabilities, markets, weather, is_live, event_count) ==
    IF /\ ValidInt(id) /\ ValidStr(name) /\ ValidStr(sport) /\ ValidStr(league)
       /\ ValidStr(country) /\ ValidOptStr(venue) /\ ValidOptStr(stage)
       /\ ValidInt(event_count)
    THEN Ok([id |-> id.v, name |-> name.v, sport |-> sport.v, league |-> league.v,
             country |-> country.v, start_time |-> start_time,
             home_team |-> home_team, away_team |-> away_team,
             venue |-> venue, stage |-> stage, probabilities |-> probabilities,
             markets |-> markets, weather |-> weather, is_live |-> is_live,
             event_count |-> event_count.v])
    ELSE Raise("ValidationError")

-----------------------------------------------------------------------------
(* Python built-ins the parser relies on. *)

UtcOffset == 1      \* local time minus UTC, in seconds, of the host

\* datetime.now(): the naive local time at clock reading c.
now(c) == c + UtcOffset

\* datetime.fromtimestamp(x): the naive local time of epoch second x.
fromtimestamp(x) == IF x.t = "num" THEN Ok(x.v + UtcOffset) ELSE Raise("TypeError")

\* The items a for loop visits in x when its body calls item.get: a list
\* gives its elements, an empty dict or string nothing; a non-empty dict or
\* string gives strings, on which .get raises; a number or None is not
\* iterable.
IterItems(x) ==
    CASE x.t = "list" -> Ok(x.v)
      [] x.t \in {"dict", "str"} -> IF Truthy(x) THEN Raise("AttributeError") ELSE Ok(<<>>)
      [] OTHER -> Raise("TypeError")

\* x[0] for a truthy x that is a list, a dict or a number.
FirstItem(x) ==
    CASE x.t = "list" -> Ok(x.v[1])
      [] x.t = "dict" -> Raise("KeyError")
      [] x.t = "num" -> Raise("TypeError")

\* str.lower() on the sport names of the feed.
lower(s) ==
    CASE s \in {"Football", "FOOTBALL", "football"} -> "football"
      [] s \in {"Cricket", "CRICKET", "cricket"} -> "cricket"
      [] OTHER -> s

-----------------------------------------------------------------------------
(* parser.py: BettingDataParser. *)

\* Bucket with the second over/under code left out of the table.
BucketWithout62(market_type) ==
    CASE market_type = 1 -> "match_result"
      [] market_type = 15 -> "over_under"
      [] market_type \in {2, 17} -> "handicap"
      [] market_type = 19 -> "both_teams_score"
      [] market_type = 8 -> "correct_score"
      [] OTHER -> "none"

\* The bucket _categorize_market appends a market of this type to, or "none".
Bucket(market_type) ==
    CASE market_type = 1 -> "match_result"
      [] market_type \in {15, 62} -> "over_under"
      [] market_type \in {2, 17} -> "handicap"
      [] market_type = 19 -> "both_teams_score"
      [] market_type = 8 -> "correct_score"
      [] OTHER -> "none"

_categorize_market(market, markets) ==
    LET b == Bucket(market.type)
    IN  IF b = "none" THEN markets
        ELSE [markets EXCEPT ![b] = Append(@, market)]

\* The loop over main_markets from position i on.
RECURSIVE MainLoop(_, _, _)
MainLoop(items, i, markets) ==
    IF i > Len(items) THEN Ok(markets)
    ELSE LET market_data == items[i]
         IN  IF market_data.t # "dict" THEN Raise("AttributeError")
             ELSE LET market == Market(Get(market_data, "G", JNum(0)),
                                       Get(market_data, "T", JNum(0)),
                                       Get(market_data, "C", JNum(0)),
                                       Get(market_data, "P", None),
                                       Get(market_data, "CE", None) = JNum(1))
                  IN  IF ~market.ok THEN market
                      ELSE MainLoop(items, i + 1, _categorize_market(market.val, markets))

\* GroupType reading the entry's own "G".
EntryType(market_group, market_data) == Get(market_data, "G", JNum(0))

\* The type of a market of a group: the group's "G".
GroupType(market_group, market_data) == Get(market_group, "G", JNum(0))

\* The inner loop over one group's "ME" entries from position j on.
RECURSIVE EntryLoop(_, _, _, _)
EntryLoop(market_group, entries, j, markets) ==
    IF j > Len(entries) THEN Ok(markets)
    ELSE LET market_data == entries[j]
         IN  IF market_data.t # "dict" THEN Raise("AttributeError")
             ELSE LET market == Market(GroupType(market_group, market_data),
                                       Get(market_data, "T", JNum(0)),
                                       Get(market_data, "C", JNum(0)),
                                       Get(market_data, "P", None),
                                       FALSE)
                  IN  IF ~market.ok THEN market
                      ELSE EntryLoop(market_group, entries, j + 1,
                                     _categorize_market(market.val, markets))

\* The loop over additional_markets from position i on.
RECURSIVE GroupLoop(_, _, _)
GroupLoop(groups, i, markets) ==
    IF i > Len(groups) THEN Ok(markets)
    ELSE LET market_group == groups[i]
         IN  IF market_group.t # "dict" THEN Raise("AttributeError")
             ELSE LET entries == IterItems(Get(market_group, "ME", JList(<<>>)))
                  IN  IF ~entries.ok THEN entries
                      ELSE LET done == EntryLoop(market_group, entries.val, 1, markets)
                           IN  IF ~done.ok THEN done
                               ELSE GroupLoop(groups, i + 1, done.val)

_parse_markets(main_markets, additional_markets) ==
    LET mains == IterItems(main_markets)
    IN  IF ~mains.ok THEN mains
        ELSE LET first == MainLoop(mains.val, 1, Markets)
             IN  IF ~first.ok THEN first
                 ELSE LET groups == IterItems(additional_markets)
                      IN  IF ~groups.ok THEN groups
                          ELSE GroupLoop(groups.val, 1, first.val)

\* The weather field the key table assigns vendor key k to, or "none".
WeatherField(key) ==
    CASE key = JNum(9) -> "temperature"
      [] key = JNum(21) -> "condition"
      [] key = JNum(27) -> "humidity"
      [] key = JNum(23) -> "wind_speed"
      [] key = JNum(25) -> "pressure"
      [] key = JNum(35) -> "precipitation"
      [] OTHER -> "none"

RECURSIVE WeatherLoop(_, _, _)
WeatherLoop(items, i, weather_map) ==
    IF i > Len(items) THEN Ok(weather_map)
    ELSE LET item == items[i]
         IN  IF item.t # "dict" THEN Raise("AttributeError")
             ELSE LET f == WeatherField(Get(item, "K", None))
                      value == Get(item, "V", None)
                  IN  WeatherLoop(items, i + 1,
                          IF f = "none" THEN weather_map
                          ELSE [weather_map EXCEPT ![f] = value])

_parse_weather(weather_data) ==
    IF ~Truthy(weather_data) THEN Ok(None)
    ELSE LET items == IterItems(weather_data)
         IN  IF ~items.ok THEN items
             ELSE LET m == WeatherLoop(items.val, 1, [f \in WeatherFields |-> Absent])
                  IN  IF ~m.ok THEN m
                      ELSE IF \E f \in WeatherFields : m.val[f] # Absent
                           THEN Weather(m.val)
                           ELSE Ok(None)

\* The image expression of a team: the first element of the image array when
\* the array is truthy, else None.
TeamImage(match_data, key) ==
    IF Truthy(Get(match_data, key, None))
    THEN FirstItem(Get(match_data, key, JList(<<None>>)))
    ELSE Ok(None)

\* TeamFrom with the name and the id read without a default.
TeamFromNoDefaults(match_data, name_key, id_key, image_key, country_key) ==
    LET image == TeamImage(match_data, image_key)
    IN  IF ~image.ok THEN image
        ELSE Team(Get(match_data, name_key, None), Get(match_data, id_key, None),
                  image.val, Get(match_data, country_key, None))

\* Team(name=..., id=..., image=..., country=...) from the keys of one side.
TeamFrom(match_data, name_key, id_key, image_key, country_key) ==
    LET image == TeamImage(match_data, image_key)
    IN  IF ~image.ok THEN image
        ELSE Team(Get(match_data, name_key, JStr("")), Get(match_data, id_key, JNum(0)),
                  image.val, Get(match_data, country_key, None))

\* venue_info.get(key) if venue_info else None
VenueField(venue_info, key) ==
    IF ~Truthy(venue_info) THEN Ok(None)
    ELSE IF venue_info.t # "dict" THEN Raise("AttributeError")
    ELSE Ok(Get(venue_info, key, None))

\* WinProbabilities(home_win=..., draw=..., away_win=...) if wp_data else None
Probabilities(wp_data) ==
    IF ~Truthy(wp_data) THEN Ok(None)
    ELSE IF wp_data.t # "dict" THEN Raise("AttributeError")
    ELSE WinProbabilities([home_win |-> Get(wp_data, "P1", None),
                           draw |-> Get(wp_data, "PX", None),
                           away_win |-> Get(wp_data, "P2", None)])

\* StartTime without the fallback to the clock.
StartTimeNoFallback(start_timestamp, t) == fromtimestamp(start_timestamp)

\* The start_time expression: t is the reading of datetime.now().
StartTime(start_timestamp, t) ==
    IF Truthy(start_timestamp) THEN fromtimestamp(start_timestamp) ELSE Ok(now(t))

\* _parse_single_match with the clock reading t that datetime.now() returns.
_parse_single_match(match_data, t) ==
    IF match_data.t # "dict" THEN Raise("AttributeError")
    ELSE
    LET start_time == StartTime(Get(match_data, "S", JNum(0)), t)
        home_team == TeamFrom(match_data, "O1", "O1I", "O1IMG", "O1C")
        away_team == TeamFrom(match_data, "O2", "O2I", "O2IMG", "O2C")
        venue_info == Get(match_data, "MIO", Dict(VenueKeys, <<>>))
        venue == VenueField(venue_info, "Loc")
        stage == VenueField(venue_info, "TSt")
        probabilities == Probabilities(Get(match_data, "WP", Dict(ProbKeys, <<>>)))
        markets == _parse_markets(Get(match_data, "E", JList(<<>>)),
                                  Get(match_data, "AE", JList(<<>>)))
        weather == _parse_weather(Get(match_data, "MIS", JList(<<>>)))
        is_live == Get(match_data, "SS", JNum(0)) = JNum(1)
    IN  CASE ~start_time.ok -> start_time
          [] ~home_team.ok -> home_team
          [] ~away_team.ok -> away_team
          [] ~venue.ok -> venue
          [] ~probabilities.ok -> probabilities
          [] ~markets.ok -> markets
          [] ~weather.ok -> weather
          [] OTHER ->
               Match(Get(match_data, "I", None), Get(match_data, "L", JStr("")),
                     Get(match_data, "SE", JStr("")), Get(match_data, "LE", JStr("")),
                     Get(match_data, "CN", JStr("")), start_time.val,
                     home_team.val, away_team.val, venue.val, stage.val,
                     probabilities.val, markets.val, weather.val, is_live,
                     Get(match_data, "EC", JNum(0)))


-----------------------------------------------------------------------------
(* parser.py: the read operations of a parser, on its list of matches. *)

get_football_matches(matches) == SelectSeq(matches, LAMBDA m : lower(m.sport) = "football")

get_cricket_matches(matches) == SelectSeq(matches, LAMBDA m : lower(m.sport) = "cricket")

get_live_matches(matches) == SelectSeq(matches, LAMBDA m : m.is_live)

\* AnyOdds with the comparison turned round.
AnyOddsBelow(m, min_odds) ==
    \E k \in 1..Len(m.markets.match_result) : m.markets.match_result[k].odds <= min_odds

\* any(market.odds >= min_odds for market in m.markets.match_result)
AnyOdds(m, min_odds) ==
    \E k \in 1..Len(m.markets.match_result) : m.markets.match_result[k].odds >= min_odds

get_matches_with_good_odds(matches, min_odds) ==
    SelectSeq(matches, LAMBDA m : AnyOdds(m, min_odds))

\* The league_counts dict after the loop over matches from position i on: a
\* dict keeps its keys in the order of their first insertion.
RECURSIVE LeagueCounts(_, _, _)
LeagueCounts(matches, i, league_counts) ==
    IF i > Len(matches) THEN league_counts
    ELSE LET league == matches[i].league
             at == {k \in 1..Len(league_counts) : league_counts[k].league = league}
         IN  LeagueCounts(matches, i + 1,
                 IF at = {}
                 THEN Append(league_counts, [league |-> league, count |-> 1])
                 ELSE [k \in 1..Len(league_counts) |->
                          IF k \in at
                          THEN [league_counts[k] EXCEPT !.count = @ + 1]
                          ELSE league_counts[k]])

\* Insert placing item x ahead of the items of its own count.
InsertAhead(sorted, x) ==
    LET ahead == Cardinality({k \in 1..Len(sorted) : sorted[k].count > x.count})
    IN  SubSeq(sorted, 1, ahead) \o <<x>> \o SubSeq(sorted, ahead + 1, Len(sorted))

\* sorted(items, key=count, reverse=True): a stable sort, so items of equal
\* count keep their order.  Insert places item x behind every item of the
\* sorted list whose count is at least its own.
Insert(sorted, x) ==
    LET ahead == Cardinality({k \in 1..Len(sorted) : sorted[k].count >= x.count})
    IN  SubSeq(sorted, 1, ahead) \o <<x>> \o SubSeq(sorted, ahead + 1, Len(sorted))

RECURSIVE SortedByCount(_, _, _)
SortedByCount(items, i, sorted) ==
    IF i > Len(items) THEN sorted
    ELSE SortedByCount(items, i + 1, Insert(sorted, items[i]))

get_popular_leagues(matches) == SortedByCount(LeagueCounts(matches, 1, <<>>), 1, <<>>)

to_dict(matches) ==
    [total_matches |-> Len(matches),
     football_matches |-> Len(get_football_matches(matches)),
     cricket_matches |-> Len(get_cricket_matches(matches)),
     live_matches |-> Len(get_live_matches(matches)),
     matches |-> matches,
     popular_leagues |-> get_popular_leagues(matches)]

-----------------------------------------------------------------------------
(* The state of the process. *)

\* No handler is running.
NoJob(pc) == [pc |-> pc, origin |-> "none", data |-> None, items |-> <<>>, i |-> 0,
              matches |-> <<>>, started |-> 0, before |-> None]

\* The HTTP outcome of a handler: status 200 with a body, or an error status
\* with its detail.
Reply(route, req, status, detail, body) ==
    [route |-> route, req |-> req, status |-> status, detail |-> detail, body |-> body]

NoReply == Reply("none", None, 0, "", None)

\* The module is imported: no parser, startup_event not yet run.
Init ==
    /\ current_parser = None
    /\ job = NoJob("boot")
    /\ response = NoReply
    /\ clock = ClockStart

-----------------------------------------------------------------------------
(* BettingDataParser(api_response), step by step in the running handler.    *)
(* job.data is the constructor's argument, job.items the list the loop of   *)
(* _parse_matches runs over, job.i the position of the loop, job.matches    *)
(* the local list `matches`, job.started the clock reading at which the     *)
(* normalisation of the last record began and job.before the current        *)
(* parser at the start of the handler.                                      *)

\* Construct binding the global to the parser under construction, its list
\* of matches still to be filled.
ConstructPublishing ==
    /\ job.pc = "construct"
    /\ LET items == IF job.data.t # "dict" THEN Raise("AttributeError")
                    ELSE IterItems(Get(job.data, "Value", JList(<<>>)))
       IN  job' = IF items.ok
                  THEN [job EXCEPT !.pc = "parse", !.items = items.val, !.i = 1,
                                   !.matches = <<>>]
                  ELSE [job EXCEPT !.pc = "raised"]
    /\ current_parser' = [raw_data |-> job.data, matches |-> <<>>]
    /\ UNCHANGED <<response, clock>>

\* __init__ up to the loop: self.raw_data.get("Value", []) and iter() of it.
Construct ==
    /\ job.pc = "construct"
    /\ LET items == IF job.data.t # "dict" THEN Raise("AttributeError")
                    ELSE IterItems(Get(job.data, "Value", JList(<<>>)))
       IN  job' = IF items.ok
                  THEN [job EXCEPT !.pc = "parse", !.items = items.val, !.i = 1,
                                   !.matches = <<>>]
                  ELSE [job EXCEPT !.pc = "raised"]
    /\ UNCHANGED <<current_parser, response, clock>>

\* One iteration of the loop of _parse_matches: the record is normalised (the
\* clock may advance before datetime.now() is read) and appended; when the
\* normalisation raises, the handler prints match_data.get('I', 'unknown'),
\* which itself raises on a record that is no dict.
ParseStep ==
    /\ job.pc = "parse"
    /\ job.i <= Len(job.items)
    /\ \E d \in 0..1 :
         /\ clock + d <= ClockStart + MaxElapsed
         /\ clock' = clock + d
         /\ LET match_data == job.items[job.i]
                parsed_match == _parse_single_match(match_data, clock + d)
            IN  job' = IF parsed_match.ok
                       THEN [job EXCEPT !.matches = Append(@, parsed_match.val),
                                        !.i = @ + 1, !.started = clock]
                       ELSE IF match_data.t = "dict"
                       THEN [job EXCEPT !.i = @ + 1, !.started = clock]
                       ELSE [job EXCEPT !.pc = "raised", !.started = clock]
    /\ UNCHANGED <<current_parser, response>>

\* The loop is over: _parse_matches returns and __init__ sets self.matches.
ParseReturn ==
    /\ job.pc = "parse"
    /\ job.i > Len(job.items)
    /\ job' = [job EXCEPT !.pc = "built"]
    /\ UNCHANGED <<current_parser, response, clock>>

\* current_parser = BettingDataParser(data): the global is bound to the new
\* parser, and the handler returns.
Assign ==
    /\ job.pc = "built"
    /\ current_parser' = [raw_data |-> job.data, matches |-> job.matches]
    /\ response' = IF job.origin = "fetch"
                   THEN Reply("fetch-live", None, 200, "",
                              [success |-> TRUE, matches_fetched |-> Len(job.matches)])
                   ELSE response
    /\ job' = NoJob("idle")
    /\ UNCHANGED clock

\* An exception leaves the handler: fetch_live_data turns it into a 500, and
\* startup_event (which catches FileNotFoundError only) lets it escape, so
\* the application does not start.
HandlerExcept ==
    /\ job.pc = "raised"
    /\ response' = IF job.origin = "fetch"
                   THEN Reply("fetch-live", None, 500, "Error fetching data", None)
                   ELSE response
    /\ job' = IF job.origin = "fetch" THEN NoJob("idle") ELSE NoJob("crashed")
    /\ UNCHANGED <<current_parser, clock>>

-----------------------------------------------------------------------------
(* main.py: startup and the fetch handler. *)

\* startup_event: data/sample_data.json is missing, or holds one of samples.
Startup(samples) ==
    /\ job.pc = "boot"
    /\ \E sample_data \in samples \cup {Absent} :
         job' = IF sample_data = Absent
                THEN NoJob("idle")
                ELSE [NoJob("construct") EXCEPT !.origin = "startup",
                                                !.data = sample_data,
                                                !.before = current_parser]
    /\ UNCHANGED <<current_parser, response, clock>>

\* fetch_live_data up to the test of the gateway's answer: fetch_matches
\* returns the decoded body, or None on a transport or decode failure.
FetchLive(feeds) ==
    /\ job.pc = "idle"
    /\ \E data \in feeds \cup {None} :
         /\ job' = IF Truthy(data)
                   THEN [NoJob("save") EXCEPT !.origin = "fetch", !.data = data,
                                              !.before = current_parser]
                   ELSE NoJob("idle")
         /\ response' = IF Truthy(data) THEN NoReply
                        ELSE Reply("fetch-live", None, 500, "Error fetching data", None)
    /\ UNCHANGED <<current_parser, clock>>

\* api_client.save_response(data): the file is written, or open() raises.
SaveResponse ==
    /\ job.pc = "save"
    /\ \E written \in BOOLEAN :
         /\ job' = [job EXCEPT !.pc = IF written THEN "construct" ELSE "raised"]
    /\ UNCHANGED <<current_parser, response, clock>>


-----------------------------------------------------------------------------
(* main.py: the query routes.  Each answers 404 "No data available" when    *)
(* there is no current parser.                                              *)

NoData(route, req) == Reply(route, req, 404, "No data available", None)

\* matches[:limit]
Slice(matches, limit) ==
    IF limit >= 0
    THEN SubSeq(matches, 1, IF limit < Len(matches) THEN limit ELSE Len(matches))
    ELSE SubSeq(matches, 1, IF Len(matches) + limit > 0 THEN Len(matches) + limit ELSE 0)

\* FirstWithId taking the last match of the id.
LastWithId(matches, match_id) ==
    LET hits == {k \in 1..Len(matches) : matches[k].id = match_id}
    IN  IF hits = {} THEN None
        ELSE matches[CHOOSE k \in hits : \A h \in hits : k >= h]

\* next((m for m in matches if m.id == match_id), None)
FirstWithId(matches, match_id) ==
    LET hits == {k \in 1..Len(matches) : matches[k].id = match_id}
    IN  IF hits = {} THEN None
        ELSE matches[CHOOSE k \in hits : \A h \in hits : k <= h]

\* next((m.odds for m in match_result if m.outcome == outcome), None)
FirstOdds(match_result, outcome) ==
    LET hits == {k \in 1..Len(match_result) : match_result[k].outcome = outcome}
    IN  IF hits = {} THEN None
        ELSE JNum(match_result[CHOOSE k \in hits : \A h \in hits : k <= h].odds)

\* The row export_csv builds for one match.
CsvRow(match) ==
    [Match |-> match.name, Sport |-> match.sport, League |-> match.league,
     Country |-> match.country, StartTime |-> match.start_time,
     HomeTeam |-> match.home_team.name, AwayTeam |-> match.away_team.name,
     HomeWinOdds |-> FirstOdds(match.markets.match_result, 1),
     DrawOdds |-> FirstOdds(match.markets.match_result, 2),
     AwayWinOdds |-> FirstOdds(match.markets.match_result, 3),
     Venue |-> match.venue, IsLive |-> match.is_live]

dashboard ==
    /\ job.pc = "idle"
    /\ response' = Reply("dashboard", None, 200, "",
                         [has_data |-> current_parser # None,
                          total_matches |-> IF current_parser # None
                                            THEN Len(current_parser.matches) ELSE 0])
    /\ UNCHANGED <<current_parser, job, clock>>

get_summary ==
    /\ job.pc = "idle"
    /\ response' = IF current_parser = None THEN NoData("summary", None)
                   ELSE LET matches == current_parser.matches
                        IN  Reply("summary", None, 200, "",
                                [total_matches |-> Len(matches),
                                 football_matches |-> Len(get_football_matches(matches)),
                                 cricket_matches |-> Len(get_cricket_matches(matches)),
                                 live_matches |-> Len(get_live_matches(matches)),
                                 popular_leagues |-> get_popular_leagues(matches)])
    /\ UNCHANGED <<current_parser, job, clock>>

\* The filters of get_matches: sport and min_odds are None when not given,
\* and a filter is applied when its parameter is truthy.
FilterMatches(matches, sport, live_only, min_odds, limit) ==
    LET by_sport == IF Truthy(sport)
                    THEN SelectSeq(matches, LAMBDA m : lower(m.sport) = lower(sport.v))
                    ELSE matches
        live == IF live_only THEN SelectSeq(by_sport, LAMBDA m : m.is_live) ELSE by_sport
        good == IF Truthy(min_odds)
                THEN SelectSeq(live, LAMBDA m : AnyOdds(m, min_odds.v))
                ELSE live
    IN  Slice(good, limit)

get_matches(sports, odds, limits) ==
    /\ job.pc = "idle"
    /\ \E sport \in sports, live_only \in BOOLEAN, min_odds \in odds, limit \in limits :
         LET req == [sport |-> sport, live_only |-> live_only, min_odds |-> min_odds,
                     limit |-> limit]
         IN  response' = IF current_parser = None THEN NoData("matches", req)
                         ELSE Reply("matches", req, 200, "",
                                    FilterMatches(current_parser.matches, sport,
                                                  live_only, min_odds, limit))
    /\ UNCHANGED <<current_parser, job, clock>>

\* A caller of the parser asks get_matches_with_good_odds(min_odds).
matches_with_good_odds(thresholds) ==
    /\ job.pc = "idle"
    /\ current_parser # None
    /\ \E min_odds \in thresholds :
         response' = Reply("good-odds", min_odds, 200, "",
                           get_matches_with_good_odds(current_parser.matches, min_odds))
    /\ UNCHANGED <<current_parser, job, clock>>

get_match(ids) ==
    /\ job.pc = "idle"
    /\ \E match_id \in ids :
         response' =
            IF current_parser = None THEN NoData("match", match_id)
            ELSE LET match == FirstWithId(current_parser.matches, match_id)
                 IN  IF match = None
                     THEN Reply("match", match_id, 404, "Match not found", None)
                     ELSE Reply("match", match_id, 200, "", match)
    /\ UNCHANGED <<current_parser, job, clock>>

get_leagues ==
    /\ job.pc = "idle"
    /\ response' = IF current_parser = None THEN NoData("leagues", None)
                   ELSE Reply("leagues", None, 200, "",
                              get_popular_leagues(current_parser.matches))
    /\ UNCHANGED <<current_parser, job, clock>>

\* export_csv: with a parser the rows are built and the file is written; a
\* failing write raises out of the handler, which the server answers with 500.
export_csv ==
    /\ job.pc = "idle"
    /\ \E written \in BOOLEAN :
         /\ response' =
               IF current_parser = None THEN NoData("export-csv", None)
               ELSE IF written
               THEN Reply("export-csv", None, 200, "",
                          [k \in 1..Len(current_parser.matches) |->
                              CsvRow(current_parser.matches[k])])
               ELSE Reply("export-csv", None, 500, "Internal Server Error", None)
    /\ UNCHANGED <<current_parser, job, clock>>

\* export_json: as export_csv, the file holding to_dict().
export_json ==
    /\ job.pc = "idle"
    /\ \E written \in BOOLEAN :
         /\ response' =
               IF current_parser = None THEN NoData("export-json", None)
               ELSE IF written
               THEN Reply("export-json", None, 200, "", to_dict(current_parser.matches))
               ELSE Reply("export-json", None, 500, "Internal Server Error", None)
    /\ UNCHANGED <<current_parser, job, clock>>


-----------------------------------------------------------------------------
(* The inputs: vendor records, feeds and request parameters. *)

MarketEntry(g, t, c) == Dict(MarketKeys, [G |-> JNum(g), T |-> JNum(t), C |-> JNum(c)])

\* The record of the end-to-end scenario: a live football match with three
\* match_result prices (1.8, 3.2, 4.5).
Base ==
    [I |-> JNum(1), L |-> JStr("A vs B"), SE |-> JStr("Football"),
     LE |-> JStr("Premier"), CN |-> JStr("UK"), S |-> JNum(2),
     O1 |-> JStr("A"), O1I |-> JNum(10), O2 |-> JStr("B"), O2I |-> JNum(20),
     E |-> JList(<<MarketEntry(1, 1, 18), MarketEntry(1, 2, 32), MarketEntry(1, 3, 45)>>),
     SS |-> JNum(1), EC |-> JNum(3)]

With(f, g) == [k \in DOMAIN f \cup DOMAIN g |-> IF k \in DOMAIN g THEN g[k] ELSE f[k]]
Without(f, ks) == [k \in DOMAIN f \ ks |-> f[k]]
RawMatch(f) == Dict(MatchKeys, f)

SeqsUpTo(S, n) == UNION {[1..k -> S] : k \in 0..n}

\* A successful vendor response carrying the records values.
Feed(values) ==
    Dict(ResponseKeys, [Error |-> JStr(""), ErrorCode |-> JNum(0),
                        Success |-> JBool(TRUE), Value |-> JList(values)])

\* Vendor responses without a usable "Value": the empty object, an error
\* object whose "Value" is null, and an error object without "Value".
EmptyFeed == Dict(ResponseKeys, <<>>)
NullFeed == Dict(ResponseKeys, [Error |-> JStr("busy"), ErrorCode |-> JNum(1),
                                Success |-> JBool(FALSE), Value |-> None])
BareFeed == Dict(ResponseKeys, [Error |-> JStr("busy"), ErrorCode |-> JNum(1),
                                Success |-> JBool(FALSE)])

\* Records of the service runs: two matches sharing an id, a dict without
\* "I" and a record that is no dict.
SvcRecords ==
    {RawMatch(Base),
     RawMatch(With(Base, [L |-> JStr("C vs D"), SE |-> JStr("Cricket"),
                          LE |-> JStr("Cup"), SS |-> JNum(0)])),
     RawMatch(Without(Base, {"I"})),
     JStr("oops")}

SvcFeeds == {Feed(values) : values \in SeqsUpTo(SvcRecords, MaxRecords)}
              \cup {EmptyFeed, NullFeed, BareFeed}

MatchIds == {1, 2, 3}
SportParams == {None, JStr("FOOTBALL")}
OddsParams == {None, JNum(0), JNum(40)}
LimitParams == {100, 1}

-----------------------------------------------------------------------------
(* The service: startup, live fetches and queries. *)

Next ==
    \/ Startup(SvcFeeds)
    \/ FetchLive(SvcFeeds)
    \/ SaveResponse
    \/ Construct
    \/ ParseStep
    \/ ParseReturn
    \/ Assign
    \/ HandlerExcept
    \/ dashboard
    \/ get_summary
    \/ get_matches(SportParams, OddsParams, LimitParams)
    \/ get_match(MatchIds)
    \/ get_leagues
    \/ export_csv
    \/ export_json

Spec == Init /\ [][Next]_vars


-----------------------------------------------------------------------------
(* Normalisation runs: the parser is built at startup from a sample file    *)
(* whose records vary in the keys they carry.                               *)

ScalarKeys == {"I", "L", "SE", "LE", "CN", "S", "O1", "O1I", "O2", "O2I", "SS", "EC"}
TeamKeys == {"O1", "O1I", "O1IMG", "O1C", "O2", "O2I", "O2IMG", "O2C"}

\* The scenario's record, that record without one scalar key, without the
\* team keys, with a zero timestamp; dicts whose normalisation raises (a null
\* name, a venue object that is a string, no id and no team keys); and
\* records that are no dicts.
NormRecords ==
    {RawMatch(Base)}
      \cup {RawMatch(Without(Base, {k})) : k \in ScalarKeys}
      \cup {RawMatch(Without(Base, TeamKeys)),
            RawMatch(Without(Base, TeamKeys \cup {"I"})),
            RawMatch(With(Base, [S |-> JNum(0)])),
            RawMatch(With(Base, [L |-> None])),
            RawMatch(With(Base, [MIO |-> JStr("Lords")])),
            JStr("oops"),
            None}

NormFeeds == {Feed(values) : values \in SeqsUpTo(NormRecords, MaxRecords)}

NextNormalize ==
    \/ Startup(NormFeeds)
    \/ Construct
    \/ ParseStep
    \/ ParseReturn
    \/ Assign
    \/ HandlerExcept

SpecNormalize == Init /\ [][NextNormalize]_vars


-----------------------------------------------------------------------------
(* Properties of the normalisation runs. *)

\* The record the last iteration of the loop handled, once one has.
Handled == job.pc \in {"parse", "built", "raised"} /\ job.i > 0 /\ job.i - 1 >= 1
LastRecord == job.items[job.i - 1]
LastMatch == job.matches[Len(job.matches)]

\* The loop has ended: the constructor returned or raised.
Ended == job.pc \in {"built", "raised"}

\* A record that is no dict, or a dict whose normalisation raises.
Malformed(r) == ~_parse_single_match(r, ClockStart).ok
Malformeds(items) == {k \in 1..Len(items) : Malformed(items[k])}

(* C1: when exactly one record of the raw array is malformed (no dict, or a    *)
(* dict whose normalisation raises), the batch normalisation does not raise    *)
(* and the Dataset holds exactly the valid records: its size is the length of  *)
(* the array minus one.                                                        *)
C1_OneMalformedDropsOne ==
    (Ended /\ Len(job.items) >= 2 /\ Cardinality(Malformeds(job.items)) = 1)
        => /\ job.pc = "built"
           /\ Len(job.matches) = Len(job.items) - 1

\* The part of C1 the code keeps: a dict whose normalisation raises is skipped.
C1_DictSkipped ==
    /\ job.pc = "built"
    /\ Len(job.items) = 2
    /\ Cardinality(Malformeds(job.items)) = 1
    /\ Len(job.matches) = 1

\* A dict that carries none of the O1*/O2* keys.
MissingTeams(r) == r.t = "dict" /\ \A k \in TeamKeys : r.v[k] = Absent

\* The record r with the team keys of the scenario's record put in.
TeamsRestored(r) ==
    JDict([k \in MatchKeys |-> IF k \in TeamKeys \cap DOMAIN Base THEN Base[k] ELSE r.v[k]])

\* A two-record array: a valid record, then one that misses the team keys.
SecondMissesTeams ==
    /\ Ended
    /\ Len(job.items) = 2
    /\ ~Malformed(job.items[1])
    /\ MissingTeams(job.items[2])

(* C2 as claimed: for a raw array of two records, the first valid and the      *)
(* second missing the team fields (the O1*/O2* keys), normalising the second   *)
(* fails and the Dataset has size 1, holding only the first record's Match.    *)
C2_MissingTeamsDropped ==
    SecondMissesTeams
        => /\ job.pc = "built"
           /\ Malformed(job.items[2])
           /\ Len(job.matches) = 1
           /\ job.matches[1].id = job.items[1].v["I"].v

EmptyTeam == [name |-> "", id |-> 0, image |-> None, country |-> None]

(* C2 amended: for a raw array of two records, the first valid and the second  *)
(* missing the team fields but otherwise valid, normalising the second does    *)
(* not fail: both its teams get the name "" and the id 0 (no image, no         *)
(* country), and the Dataset has size 2, holding both Matches in array order.  *)
C2_MissingTeamsDefaulted ==
    (SecondMissesTeams /\ ~Malformed(TeamsRestored(job.items[2])))
        => /\ job.pc = "built"
           /\ Len(job.matches) = 2
           /\ job.matches[1].id = job.items[1].v["I"].v
           /\ job.matches[2].id = job.items[2].v["I"].v
           /\ job.matches[2].home_team = EmptyTeam
           /\ job.matches[2].away_team = EmptyTeam

C2_Witness ==
    /\ SecondMissesTeams
    /\ ~Malformed(TeamsRestored(job.items[2]))
    /\ job.pc = "built"
    /\ Len(job.matches) = 2

\* The record r with key k put in, holding the scenario's value.
KeyRestored(r, k) == JDict([r.v EXCEPT ![k] = Base[k]])

\* The field of Match m that scalar key k decodes to, as a JSON value.
Decoded(m, k) ==
    CASE k = "I" -> JNum(m.id)
      [] k = "L" -> JStr(m.name)
      [] k = "SE" -> JStr(m.sport)
      [] k = "LE" -> JStr(m.league)
      [] k = "CN" -> JStr(m.country)
      [] k = "O1" -> JStr(m.home_team.name)
      [] k = "O1I" -> JNum(m.home_team.id)
      [] k = "O2" -> JStr(m.away_team.name)
      [] k = "O2I" -> JNum(m.away_team.id)
      [] k = "EC" -> JNum(m.event_count)

IntKeys == {"I", "O1I", "O2I", "EC"}
StrKeys == {"L", "SE", "LE", "CN", "O1", "O2"}

(* C3: for a record that is a dict and a scalar key (I, L, SE, LE, CN, S, O1,  *)
(* O1I, O2, O2I, SS, EC), the absence of the key never makes the normalisation *)
(* fail: a record that normalises with the key present normalises without it,  *)
(* an absent integer field decoding to 0 and an absent string field to "".     *)
C3_AbsentKeyDefaults ==
    Handled /\ LastRecord.t = "dict" =>
        \A k \in ScalarKeys :
            (LastRecord.v[k] = Absent /\ ~Malformed(KeyRestored(LastRecord, k)))
                => /\ ~Malformed(LastRecord)
                   /\ k \in IntKeys => Decoded(LastMatch, k) = JNum(0)
                   /\ k \in StrKeys => Decoded(LastMatch, k) = JStr("")

(* C9: for a record whose epoch field S is zero or absent, start_time is the   *)
(* wall-clock time read during the normalisation of that record, so it is not  *)
(* earlier than the time at which that normalisation started; for a non-zero S *)
(* start_time is the conversion of that epoch value, whatever the clock reads. *)
C9_StartTime ==
    (Handled /\ job.pc = "parse" /\ ~Malformed(LastRecord)) =>
        LET S == Get(LastRecord, "S", JNum(0))
        IN  IF S = JNum(0)
            THEN /\ LastMatch.start_time >= job.started + UtcOffset
                 /\ LastMatch.start_time = clock + UtcOffset
            ELSE LastMatch.start_time = S.v + UtcOffset

C9_Witness ==
    /\ Handled /\ job.pc = "parse" /\ ~Malformed(LastRecord)
    /\ LastRecord.v["S"] = Absent
    /\ clock > job.started
    /\ LastMatch.start_time > job.started + UtcOffset


-----------------------------------------------------------------------------
(* Properties of the service. *)

\* The parser p holds, in array order, the Match of every record of its raw
\* response that normalises, and nothing else: p.matches[k] is what
\* _parse_single_match makes of the k-th such record at the clock reading
\* the match's start_time shows.
WhollyBuilt(p) ==
    /\ p.raw_data.t = "dict"
    /\ LET items == IterItems(Get(p.raw_data, "Value", JList(<<>>)))
       IN  /\ items.ok
           /\ \A k \in 1..Len(items.val) : items.val[k].t = "dict"
           /\ LET good == SelectSeq(items.val, LAMBDA r : ~Malformed(r))
              IN  /\ Len(p.matches) = Len(good)
                  /\ \A k \in 1..Len(good) :
                        p.matches[k] =
                            _parse_single_match(good[k],
                                p.matches[k].start_time - UtcOffset).val

\* A reader sees no Dataset or one wholly built from one raw response.
NeverPartial == current_parser = None \/ WhollyBuilt(current_parser)

\* A handler in which an exception is propagating has left the current
\* parser as it found it.
FailureKeeps == job.pc = "raised" => current_parser = job.before

\* The current parser changes only in the step that binds the global to a
\* parser whose constructor has returned.
OnlyReplaced ==
    current_parser' # current_parser
        => /\ job.pc = "built"
           /\ current_parser' = [raw_data |-> job.data, matches |-> job.matches]

\* A fetch that ends in an error answer does not change the current parser.
FailedFetchKeeps ==
    (response'.route = "fetch-live" /\ response'.status # 200 /\ job'.pc = "idle"
        /\ job.pc \in {"idle", "raised"})
        => current_parser' = current_parser

(* C6: the current Dataset changes only by whole replacement after a          *)
(* successful fetch or load: a fetch-live call that fails (no data from the    *)
(* gateway, a failing save, a constructor that raises) leaves it as it was,    *)
(* and in every reachable state a reader sees no Dataset or a Dataset wholly   *)
(* built from one raw response, never a partially built one.                   *)
C6_ReplacedWhole ==
    /\ [](NeverPartial /\ FailureKeeps)
    /\ [][OnlyReplaced /\ FailedFetchKeeps]_vars

\* A fetch fails in the constructor, with matches already in its local list,
\* while an earlier Dataset is current.
C6_Witness ==
    /\ job.pc = "raised"
    /\ job.origin = "fetch"
    /\ Len(job.matches) > 0
    /\ current_parser # None
    /\ Len(current_parser.matches) > 0
    /\ current_parser.raw_data # job.data

QueryRoutes == {"summary", "matches", "match", "leagues", "export-csv", "export-json"}

(* C10: the match lookup returns the first Match in Dataset order whose id is  *)
(* the requested id; when no Match has that id it answers 404, and when there  *)
(* is no current Dataset it and every other query route (summary, matches,     *)
(* leagues, exports) answer 404 instead of raising.                            *)
C10_Lookup ==
    /\ (response.route \in QueryRoutes /\ current_parser = None)
          => response.status = 404 /\ response.detail = "No data available"
    /\ (response.route = "match" /\ current_parser # None)
          => LET matches == current_parser.matches
                 hits == {k \in 1..Len(matches) : matches[k].id = response.req}
             IN  IF hits = {}
                 THEN response.status = 404 /\ response.detail = "Match not found"
                 ELSE /\ response.status = 200
                      /\ \E k \in hits : /\ \A h \in hits : k <= h
                                         /\ response.body = matches[k]

\* The lookup answers with the first of two different matches of one id.
C10_Witness ==
    /\ response.route = "match"
    /\ response.status = 200
    /\ current_parser # None
    /\ Len(current_parser.matches) = 2
    /\ current_parser.matches[1].id = response.req
    /\ current_parser.matches[2].id = response.req
    /\ current_parser.matches[1] # current_parser.matches[2]
    /\ response.body = current_parser.matches[1]


-----------------------------------------------------------------------------
(* Market runs: the sample file holds one record, whose primary markets and *)
(* market groups vary.                                                      *)

\* Primary entries: a match_result price, an over/under price that carries a
\* parameter and the main flag, and a price of an unlisted type.
MainEntries ==
    {MarketEntry(1, 1, 18),
     Dict(MarketKeys, [G |-> JNum(62), T |-> JNum(2), C |-> JNum(32),
                       P |-> JNum(25), CE |-> JNum(1)]),
     MarketEntry(7, 3, 45)}

\* Entries of a group: they carry a "G" of their own, which differs from the
\* group's.
GroupEntries == {MarketEntry(1, 2, 32), MarketEntry(5, 3, 45)}

Group(g, entries) == Dict(GroupKeys, [G |-> JNum(g), ME |-> JList(entries)])

Groups ==
    {Group(g, entries) : g \in {1, 17, 5}, entries \in SeqsUpTo(GroupEntries, MaxEntries)}
      \cup {Dict(GroupKeys, [G |-> JNum(1)])}

\* One record per type code: the code on a sole primary entry, and on a sole
\* group of one entry; and a primary entry without "G".
SweepRecords ==
    {RawMatch(With(Base, [E |-> JList(<<MarketEntry(g, 1, 18)>>)])) : g \in -1..MaxCode}
      \cup {RawMatch(With(Without(Base, {"E"}),
                          [AE |-> JList(<<Group(g, <<MarketEntry(1, 2, 32)>>)>>)])) :
               g \in -1..MaxCode}
      \cup {RawMatch(With(Base, [E |-> JList(<<Dict(MarketKeys, [T |-> JNum(1),
                                                                 C |-> JNum(18)])>>)]))}

\* Records whose prices the vendor quotes below zero, at zero or not at all:
\* on a primary entry beside a regular price, and on an entry of a group.
PriceRecords ==
    {RawMatch(With(Base, [E |-> JList(<<MarketEntry(1, 1, 18), MarketEntry(g, 2, c)>>)])) :
        g \in {1, 62}, c \in {-15, 0}}
      \cup {RawMatch(With(Without(Base, {"E"}),
                          [AE |-> JList(<<Group(g, <<MarketEntry(1, 2, c)>>)>>)])) :
               g \in {1, 17}, c \in {-15, 0}}
      \cup {RawMatch(With(Base, [E |-> JList(<<Dict(MarketKeys, [G |-> JNum(1),
                                                                 T |-> JNum(1)])>>)]))}

MarketRecords ==
    {RawMatch(With(Base, [E |-> JList(mains), AE |-> JList(groups)])) :
        mains \in SeqsUpTo(MainEntries, MaxMain), groups \in SeqsUpTo(Groups, MaxGroups)}
      \cup SweepRecords
      \cup PriceRecords

MarketFeeds == {Feed(<<r>>) : r \in MarketRecords}

NextMarkets ==
    \/ Startup(MarketFeeds)
    \/ Construct
    \/ ParseStep
    \/ ParseReturn
    \/ Assign

SpecMarkets == Init /\ [][NextMarkets]_vars

-----------------------------------------------------------------------------
(* Properties of the market runs. *)

BucketNames == {"match_result", "over_under", "handicap", "both_teams_score",
                "correct_score"}

\* The table of market categories by type code.
TableBucket(code) ==
    IF code = 1 THEN "match_result"
    ELSE IF code = 15 \/ code = 62 THEN "over_under"
    ELSE IF code = 2 \/ code = 17 THEN "handicap"
    ELSE IF code = 19 THEN "both_teams_score"
    ELSE IF code = 8 THEN "correct_score"
    ELSE "dropped"

\* The last record was normalised, and these are its arrays and its MarketSet.
Normalised == Handled /\ job.pc = "parse" /\ ~Malformed(LastRecord)
LastMains == Get(LastRecord, "E", JList(<<>>)).v
LastGroups == Get(LastRecord, "AE", JList(<<>>)).v
LastMarkets == LastMatch.markets

\* The number of markets over all buckets.
BucketTotal(markets) ==
    Len(markets.match_result) + Len(markets.over_under) + Len(markets.handicap)
        + Len(markets.both_teams_score) + Len(markets.correct_score)

\* The record holds a single price: one primary entry and no group, or no
\* primary entry and one group of one entry.  SoleCode is its type code.
SolePrimary == Len(LastMains) = 1 /\ Len(LastGroups) = 0
SoleGrouped ==
    /\ Len(LastMains) = 0
    /\ Len(LastGroups) = 1
    /\ Len(Get(LastGroups[1], "ME", JList(<<>>)).v) = 1
SoleCode ==
    IF SolePrimary THEN Get(LastMains[1], "G", JNum(0)).v
    ELSE Get(LastGroups[1], "G", JNum(0)).v

(* C4: for every market type code the classifier places the market in exactly *)
(* the bucket of the table (1 -> match_result; 15, 62 -> over_under; 2, 17 ->  *)
(* handicap; 19 -> both_teams_score; 8 -> correct_score), and for every other  *)
(* code in no bucket.                                                          *)
C4_Classified ==
    (Normalised /\ (SolePrimary \/ SoleGrouped)) =>
        \A b \in BucketNames :
            IF b = TableBucket(SoleCode)
            THEN Len(LastMarkets[b]) = 1 /\ LastMarkets[b][1].type = SoleCode
            ELSE LastMarkets[b] = <<>>

\* A price of the second over/under code has been classified.
C4_Witness ==
    /\ Normalised
    /\ SolePrimary
    /\ SoleCode = 62
    /\ Len(LastMarkets.over_under) = 1
    /\ BucketTotal(LastMarkets) = 1

\* The Market of a primary entry, and of an entry of a group.
PrimaryMarket(entry) ==
    [type |-> Get(entry, "G", JNum(0)).v, outcome |-> Get(entry, "T", JNum(0)).v,
     odds |-> Get(entry, "C", JNum(0)).v, parameter |-> Get(entry, "P", None),
     is_main |-> (Get(entry, "CE", None) = JNum(1))]
GroupedMarket(group, entry) ==
    [type |-> Get(group, "G", JNum(0)).v, outcome |-> Get(entry, "T", JNum(0)).v,
     odds |-> Get(entry, "C", JNum(0)).v, parameter |-> Get(entry, "P", None),
     is_main |-> FALSE]

\* All entries of the groups from position i on, in input order, each as the
\* Market tagged with its group's code.
RECURSIVE Flattened(_, _)
Flattened(groups, i) ==
    IF i > Len(groups) THEN <<>>
    ELSE LET entries == Get(groups[i], "ME", JList(<<>>)).v
         IN  [j \in 1..Len(entries) |-> GroupedMarket(groups[i], entries[j])]
                 \o Flattened(groups, i + 1)

\* The Markets of the last record in input order: primary entries first.
AllMarkets ==
    [k \in 1..Len(LastMains) |-> PrimaryMarket(LastMains[k])] \o Flattened(LastGroups, 1)

(* C5: the MarketSet of a record holds one Market per primary entry of a       *)
(* recognised type code and one per entry of each group whose group-level code *)
(* is recognised (tagged with the group's code, not the entry's), each in      *)
(* exactly one bucket and in input order; entries of other codes are in no     *)
(* bucket, so the buckets together hold as many Markets as there are entries   *)
(* of a recognised code.                                                       *)
C5_MarketSet ==
    Normalised =>
        /\ \A b \in BucketNames :
              LastMarkets[b] = SelectSeq(AllMarkets, LAMBDA m : TableBucket(m.type) = b)
        /\ BucketTotal(LastMarkets)
              = Len(SelectSeq(AllMarkets, LAMBDA m : TableBucket(m.type) # "dropped"))

\* A record with two primary prices, one of an unlisted code, and a group of
\* a listed code whose entry names another code.
C5_Witness ==
    /\ Normalised
    /\ Len(LastMains) = 2
    /\ Len(LastGroups) = 1
    /\ Len(AllMarkets) = 3
    /\ BucketTotal(LastMarkets) = 2
    /\ Len(LastMarkets.handicap) = 1
    /\ Get(LastGroups[1], "ME", JList(<<>>)).v[1].v["G"] = JNum(5)

\* Every Market in every bucket of the MarketSet of every match of the list
\* has a price of zero or more.
NonNegativeOdds(matches) ==
    \A i \in 1..Len(matches) : \A b \in BucketNames :
        \A k \in 1..Len(matches[i].markets[b]) : matches[i].markets[b][k].odds >= 0

(* C11: in every Match of every Dataset produced by normalisation (the list    *)
(* the constructor is filling, and the list of the current parser), every      *)
(* Market in every bucket of its MarketSet has odds >= 0, whatever the C       *)
(* values of the raw feed entries were.                                        *)
C11_OddsNonNegative ==
    /\ NonNegativeOdds(job.matches)
    /\ current_parser # None => NonNegativeOdds(current_parser.matches)

\* The Dataset in use holds a Match whose match_result bucket carries the
\* negative price of its raw entry, beside a regular price.
C11_NegativePassed ==
    /\ current_parser # None
    /\ Len(current_parser.matches) = 1
    /\ LET raw == Get(current_parser.raw_data, "Value", JList(<<>>)).v[1]
           result == current_parser.matches[1].markets.match_result
       IN  /\ Len(Get(raw, "E", JList(<<>>)).v) = 2
           /\ Get(raw, "E", JList(<<>>)).v[2].v["C"] = JNum(-15)
           /\ Len(result) = 2
           /\ result[1].odds = 18
           /\ result[2].odds = -15


-----------------------------------------------------------------------------
(* League runs: the records of the sample file vary in their league.        *)

LeagueRecords ==
    {RawMatch(With(Base, [LE |-> JStr(l)])) : l \in {"Premier", "Cup", "IPL"}}
      \cup {RawMatch(Without(Base, {"LE"}))}

LeagueFeeds == {Feed(values) : values \in SeqsUpTo(LeagueRecords, MaxLeagueMatches)}

NextLeagues ==
    \/ Startup(LeagueFeeds)
    \/ Construct
    \/ ParseStep
    \/ ParseReturn
    \/ Assign
    \/ get_leagues
    \/ get_summary

SpecLeagues == Init /\ [][NextLeagues]_vars

RECURSIVE SumCounts(_, _)
SumCounts(entries, i) ==
    IF i > Len(entries) THEN 0 ELSE entries[i].count + SumCounts(entries, i + 1)

\* The position in the Dataset at which a league is first met.
FirstMet(matches, league) ==
    CHOOSE k \in 1..Len(matches) :
        /\ matches[k].league = league
        /\ \A h \in 1..(k - 1) : matches[h].league # league

(* C7: league_summary (get_popular_leagues) returns one (league, count) entry  *)
(* per distinct league, the counts sum to the number of matches, the entries   *)
(* are ordered by count descending, and leagues of equal count appear in the   *)
(* order in which they were first met in the Dataset.                          *)
C7_LeagueSummary ==
    (response.route = "leagues" /\ response.status = 200) =>
        LET matches == current_parser.matches
            out == response.body
        IN  /\ {out[k].league : k \in 1..Len(out)}
                  = {matches[k].league : k \in 1..Len(matches)}
            /\ \A i, j \in 1..Len(out) : out[i].league = out[j].league => i = j
            /\ \A i \in 1..Len(out) :
                  out[i].count
                      = Cardinality({k \in 1..Len(matches) : matches[k].league = out[i].league})
            /\ SumCounts(out, 1) = Len(matches)
            /\ \A i, j \in 1..Len(out) :
                  i < j => /\ out[i].count >= out[j].count
                           /\ out[i].count = out[j].count
                                 => FirstMet(matches, out[i].league)
                                        < FirstMet(matches, out[j].league)

\* Three leagues of one match each are listed as they were met, which is
\* not their alphabetical order.
C7_Witness ==
    /\ response.route = "leagues"
    /\ response.status = 200
    /\ Len(response.body) = 3
    /\ Len(current_parser.matches) = 3
    /\ \A k \in 1..3 : /\ response.body[k].count = 1
                        /\ response.body[k].league = current_parser.matches[k].league
    /\ response.body[1].league = "Premier"
    /\ response.body[2].league = "Cup"

-----------------------------------------------------------------------------
(* Odds runs: the records of the sample file vary in their prices.          *)

\* Matches with match_result prices 1.0 and 3.0, with no price, with the
\* match_result price 5.0, and with an over/under price 6.0 only.
OddsRecords ==
    {RawMatch(With(Base, [I |-> JNum(1),
                          E |-> JList(<<MarketEntry(1, 1, 10), MarketEntry(1, 3, 30)>>)])),
     RawMatch(With(Base, [I |-> JNum(2), E |-> JList(<<>>)])),
     RawMatch(With(Base, [I |-> JNum(3), E |-> JList(<<MarketEntry(1, 2, 50)>>)])),
     RawMatch(With(Base, [I |-> JNum(4), E |-> JList(<<MarketEntry(15, 1, 60)>>)]))}

OddsFeeds == {Feed(values) : values \in SeqsUpTo(OddsRecords, MaxRecords)}

\* Thresholds, in tenths; 20 is the default of get_matches_with_good_odds.
Thresholds == {-5, 0, 10, 20, 30, 50, 60}

NextOdds ==
    \/ Startup(OddsFeeds)
    \/ Construct
    \/ ParseStep
    \/ ParseReturn
    \/ Assign
    \/ matches_with_good_odds(Thresholds)
    \/ get_matches({None}, {None} \cup {JNum(t) : t \in Thresholds}, LimitParams)

SpecOdds == Init /\ [][NextOdds]_vars

\* Match m has a match_result market of odds at least t.
Qualifies(m, t) ==
    \E k \in DOMAIN m.markets.match_result : m.markets.match_result[k].odds >= t

(* C8: for all thresholds t1 <= t2 the result of with_min_odds(t2)             *)
(* (get_matches_with_good_odds) is a subset of the result of with_min_odds(t1),*)
(* a Match qualifying for threshold t exactly when at least one of its         *)
(* match_result markets has odds >= t.                                         *)
C8_Monotonic ==
    response.route = "good-odds" =>
        LET matches == current_parser.matches
            t2 == response.req
        IN  /\ response.body = SelectSeq(matches, LAMBDA m : Qualifies(m, t2))
            /\ \A t1 \in Thresholds :
                  t1 <= t2 =>
                      LET wider == get_matches_with_good_odds(matches, t1)
                      IN  /\ Len(response.body) <= Len(wider)
                          /\ \A k \in 1..Len(response.body) :
                                \E j \in 1..Len(wider) : wider[j] = response.body[k]

\* A threshold that keeps one of two priced matches, which a lower one keeps both.
C8_Witness ==
    /\ response.route = "good-odds"
    /\ response.req = 50
    /\ Len(current_parser.matches) = 2
    /\ Len(response.body) = 1
    /\ Len(get_matches_with_good_odds(current_parser.matches, 10)) = 2

\* The last answer is that of /api/matches to a request that gives min_odds
\* and no other filter.
MinOddsOnly ==
    /\ response.route = "matches"
    /\ response.status = 200
    /\ response.req.sport = None
    /\ ~response.req.live_only
    /\ response.req.min_odds # None

(* C13: for every current Dataset and every supplied min_odds threshold t,     *)
(* t = 0 included, the /api/matches route with only the min_odds filter        *)
(* returns, up to the limit, exactly the matches with_min_odds(t)              *)
(* (get_matches_with_good_odds) returns, in Dataset order: a Match is included *)
(* if and only if at least one of its match_result markets has odds >= t.      *)
C13_MinOddsRoute ==
    MinOddsOnly =>
        LET matches == current_parser.matches
            t == response.req.min_odds.v
            limit == response.req.limit
        IN  /\ response.body = Slice(get_matches_with_good_odds(matches, t), limit)
            /\ response.body = Slice(SelectSeq(matches, LAMBDA m : Qualifies(m, t)), limit)

\* The route was asked for min_odds = 0 and answered with both matches of
\* the Dataset, one of which has no match_result market and is not among
\* the matches of get_matches_with_good_odds(0).
C13_ZeroUnfiltered ==
    /\ MinOddsOnly
    /\ response.req.min_odds = JNum(0)
    /\ response.req.limit = 100
    /\ Len(current_parser.matches) = 2
    /\ response.body = current_parser.matches
    /\ Len(get_matches_with_good_odds(current_parser.matches, 0)) = 1
    /\ \E k \in 1..2 : current_parser.matches[k].markets.match_result = <<>>


-----------------------------------------------------------------------------
(* Probability runs: the records of the sample file vary in their "WP".     *)

\* The probability object of a record, from its P1, PX and P2 (in tenths).
WinProbs(f) == Dict(ProbKeys, f)

\* The scenario's record without "WP"; with all three probabilities; with the
\* home probability only; with an empty object; with a null; and with a
\* string, on which .get raises.
ProbRecords ==
    {RawMatch(Base),
     RawMatch(With(Base, [WP |-> WinProbs([P1 |-> JNum(5), PX |-> JNum(3),
                                           P2 |-> JNum(2)])])),
     RawMatch(With(Base, [WP |-> WinProbs([P1 |-> JNum(5)])])),
     RawMatch(With(Base, [WP |-> WinProbs(<<>>)])),
     RawMatch(With(Base, [WP |-> None])),
     RawMatch(With(Base, [WP |-> JStr("n/a")]))}

ProbFeeds == {Feed(values) : values \in SeqsUpTo(ProbRecords, MaxRecords)}

NextProbabilities ==
    \/ Startup(ProbFeeds)
    \/ Construct
    \/ ParseStep
    \/ ParseReturn
    \/ Assign

SpecProbabilities == Init /\ [][NextProbabilities]_vars

\* The "WP" of the last record, and the probabilities of its Match.
LastWP == LastRecord.v["WP"]
LastProbabilities == LastMatch.probabilities

(* C12: the probabilities of the normalised Match are absent when the record   *)
(* has no probability sub-object (WP); when the sub-object is present (a       *)
(* non-empty object) the probabilities are present and their home_win, draw    *)
(* and away_win equal the sub-object's P1, PX and P2, each absent only if the  *)
(* vendor key is absent.                                                       *)
C12_Probabilities ==
    Normalised =>
        CASE LastWP = Absent -> LastProbabilities = None
          [] LastWP.t = "dict" /\ Truthy(LastWP) ->
               /\ LastProbabilities # None
               /\ LastProbabilities.home_win = Get(LastWP, "P1", None)
               /\ LastProbabilities.draw = Get(LastWP, "PX", None)
               /\ LastProbabilities.away_win = Get(LastWP, "P2", None)
          [] OTHER -> TRUE

\* A record that carries all three probabilities was normalised to a Match
\* whose probabilities are present and hold none of them.
C12_ValuesLost ==
    /\ Normalised
    /\ LastWP = WinProbs([P1 |-> JNum(5), PX |-> JNum(3), P2 |-> JNum(2)])
    /\ LastProbabilities # None
    /\ LastProbabilities.home_win = None
    /\ LastProbabilities.draw = None
    /\ LastProbabilities.away_win = None


=============================================================================
